---- MODULE Spec2Model ----
(***************************************************************************)
(* A model of the Lambda Web Adapter library (src/src/lib.rs): the         *)
(* readiness probing of check_init_health and fetch_response over the      *)
(* shared ready_at_init flag, the request translation of fetch_response,   *)
(* the extension registration task, the options read from the environment *)
(* (invoke mode, status-code lists, protocol names) and the dispatch of    *)
(* Adapter::run.                                                           *)
(*                                                                         *)
(* Text is modelled as a sequence of one-character strings.  An            *)
(* Option<T> is a sequence of length 0 (None) or 1 (Some(x)).              *)
(***************************************************************************)
EXTENDS Integers, Sequences, FiniteSets, TLC

\* ------------------------------------------------------------- bounds

\* Number of concurrent invocation events (clones of the Adapter).
NumReq == 2
\* The probe attempts of check_init_health are counted up to this value (saturating).
MaxAttempts == 2
\* Longest raw path of an invocation event.
MaxPathLen == 4
\* Longest configured base path.
MaxBaseLen == 2
\* Longest text of the exhaustive inputs of parse_status_codes.
MaxStatusLen == 4
\* Longest text of the exhaustive inputs of Protocol::from and LambdaInvokeMode::from.
MaxValueLen == 3

Requests == 1..NumReq

\* ------------------------------------------------------------- text

Chars == {"/", "a", "b"}

SeqsUpTo(S, n) == UNION {[1..k -> S] : k \in 0..n}

None == <<>>
Some(x) == <<x>>

IsPrefix(p, s) == Len(p) <= Len(s) /\ SubSeq(s, 1, Len(p)) = p

DropFirst(s, n) == SubSeq(s, n + 1, Len(s))

\* ------------------------------------------------------------- state

VARIABLES
    adapter,        \* the immutable fields of Adapter (set by Adapter::new)
    ready_at_init,  \* Adapter.ready_at_init: the Arc<AtomicBool> all clones share
    alive,          \* the process is running (FALSE once a panic aborted it)
    panic_strategy, \* how the binary was built: "unwind" or "abort"
    initPc,         \* check_init_health: "idle", "probing", "sleeping", "done", "panicked"
    initAttempts,   \* probe attempts check_init_health has issued (saturating)
    initSawSuccess, \* some attempt of check_init_health's loop returned Ok
    lastProbe,      \* Option: the last attempt check_init_health finished, with its verdict
    fetch,          \* per request: the position and locals of fetch_response
    regPc,          \* registrar task: "unspawned", "spawned", "registering", "polling", "exited", "panicked"
    regLog,         \* the requests the registrar task has sent, in order
    register_res,   \* Option: the registration response the task received
    env,            \* the environment of the process: variable name -> text, set names only
    options,        \* Option: what AdapterOptions::default returned
    parsed,         \* Option: the last call of a parsing function, with its input and result
    runLog          \* the platform entry points Adapter::run has invoked, in order

vars == <<adapter, ready_at_init, alive, panic_strategy, initPc, initAttempts,
          initSawSuccess, lastProbe, fetch, regPc, regLog, register_res,
          env, options, parsed, runLog>>

bootVars == <<env, options, parsed, runLog>>

initVars == <<initPc, initAttempts, initSawSuccess>>
regVars == <<regPc, regLog, register_res>>

\* ------------------------------------------------------------- readiness probe

\* What one probe attempt meets at the application: whether the TCP connection
\* completed, and the status of the HTTP response (None: a transport error).
Outcome(connected, response) == [connected |-> connected, response |-> response]

\* Adapter::check_web_readiness: Ok(()) is TRUE, Err(-1) is FALSE.
CheckWebReadiness_OffByOne(protocol, min_unhealthy_status, o) ==
    IF protocol = "Http"
    THEN /\ o.connected
         /\ o.response # None
         /\ min_unhealthy_status >= o.response[1]
         /\ o.response[1] >= 100
    ELSE o.connected

CheckWebReadiness(protocol, min_unhealthy_status, o) ==
    IF protocol = "Http"
    THEN /\ o.connected
         /\ o.response # None
         /\ min_unhealthy_status > o.response[1]
         /\ o.response[1] >= 100
    ELSE o.connected

\* Url::port of a parsed URL: None when the port is the default one of the scheme.
UrlPort(scheme, port) == IF scheme = "http" /\ port = 80 THEN None ELSE Some(port)

\* The address of the TCP probe: url.port().unwrap() panics on None.
TcpAddressPanics(a) == a.healthcheck_protocol = "Tcp" /\ a.healthcheck_port = None

\* Retry::spawn(FixedInterval::from_millis(10), ..) in is_web_ready: the strategy
\* is an endless iterator, so the loop ends only with an attempt that is Ok.
RetryEnds_GivesUp(ok) == TRUE

RetryEnds(ok) == ok

\* timeout(9.8 s, check_readiness()).await.unwrap_or_default(): the loop's value
\* when it completed in time, bool::default() when the timer elapsed.
TimeoutResult_DefaultTrue(completed, value) == IF completed THEN value ELSE TRUE

TimeoutResult(completed, value) == IF completed THEN value ELSE FALSE

\* The guard of the inline probe in fetch_response.
NeedsInlineProbe_IgnoresAsyncInit(a, flag) == ~flag

NeedsInlineProbe(a, flag) == a.async_init /\ ~flag

Bump(n) == IF n < MaxAttempts THEN n + 1 ELSE n

\* ------------------------------------------------------------- request translation

\* str::trim_start_matches(pat): removes every leading repetition of pat; an
\* empty pattern removes nothing.
RECURSIVE TrimStartMatches(_, _)
TrimStartMatches(s, pat) ==
    IF pat # <<>> /\ IsPrefix(pat, s)
    THEN TrimStartMatches(DropFirst(s, Len(pat)), pat)
    ELSE s

\* The base-path step of fetch_response.
StripBasePath(a, raw_path) ==
    IF a.base_path # None THEN TrimStartMatches(raw_path, a.base_path[1]) ELSE raw_path

\* The pass-through step of fetch_response.
IsPassThroughPost_Either(ev) == ev.request_context = "PassThrough" \/ ev.method = "POST"

IsPassThroughPost(ev) == ev.request_context = "PassThrough" /\ ev.method = "POST"

PassThroughPath(a, ev, path) == IF IsPassThroughPost(ev) THEN a.path_through_path ELSE path

\* Url::set_path on an http URL: the path of the URL always starts with "/".
SetPath(path) == IF path # <<>> /\ path[1] = "/" THEN path ELSE <<"/">> \o path

HeaderInsert(h, name, value) ==
    [n \in (DOMAIN h) \cup {name} |-> IF n = name THEN value ELSE h[n]]

HeaderRemove(h, name) == [n \in (DOMAIN h) \ {name} |-> h[n]]

\* serde_json::to_string of a context value, as the text of a header.
Serialized(x) == <<"json", x>>

\* The text of a header an event or a response carries.
Text(x) == <<"text", x>>

\* The key a HeaderMap looks up for a &str: the text in lower case, None when
\* the text is no header name.
HdrName(s) ==
    CASE s = "X-Src" -> Some("x-src")
      [] s = "Authorization" -> Some("authorization")
      [] s = "no name" -> None
      [] OTHER -> Some(s)

\* req_headers.contains_key(authorization_source)
ContainsKey(h, s) == HdrName(s) # None /\ HdrName(s)[1] \in DOMAIN h

\* The move of the authorization-source header to "authorization".
RemapAuthorization_Copies(a, h) ==
    IF a.authorization_source # None /\ ContainsKey(h, a.authorization_source[1])
    THEN HeaderInsert(h, "authorization", h[HdrName(a.authorization_source[1])[1]])
    ELSE h

RemapAuthorization(a, h) ==
    IF a.authorization_source # None /\ ContainsKey(h, a.authorization_source[1])
    THEN HeaderInsert(HeaderRemove(h, HdrName(a.authorization_source[1])[1]),
                      "authorization", h[HdrName(a.authorization_source[1])[1]])
    ELSE h

\* The warning of the authorization step: a source is configured and the
\* headers do not hold it.
WarnsHeaderNotFound(a, h) ==
    a.authorization_source # None /\ ~ContainsKey(h, a.authorization_source[1])

\* The headers of the event with the two context headers inserted.
WithContextHeaders(ev) ==
    HeaderInsert(HeaderInsert(ev.headers, "x-amzn-request-context",
                              Serialized(ev.request_context)),
                 "x-amzn-lambda-context", Serialized(ev.lambda_context))

\* The body of the outbound request.
OutboundBody(body) == IF body \in {"Empty", "Text", "Binary"} THEN body ELSE "Binary"

\* fetch_response from the raw path to the request handed to the client:
\* None when a `?` returned an error, else Some(request).
BuildRequest(a, ev) ==
    LET stripped == StripBasePath(a, ev.raw_path)
        path == PassThroughPath(a, ev, stripped)
        h2 == WithContextHeaders(ev)
    IN  IF ~ev.request_context_ok \/ ~ev.lambda_context_ok
        THEN None
        ELSE Some([method |-> ev.method,
                   stripped |-> stripped,
                   path |-> path,
                   url_path |-> SetPath(path),
                   query |-> ev.query,
                   headers |-> RemapAuthorization(a, h2),
                   body |-> OutboundBody(ev.body)])

\* Vec::contains
Contains(v, x) == \E i \in DOMAIN v : v[i] = x

\* fetch_response after client.request(..).await: resp is None for a transport
\* error.  The result is [kind |-> "err"] or [kind |-> "ok", response |-> ..].
HandleResponse_KeepsTransferEncoding(a, resp) ==
    IF resp = None THEN [kind |-> "err", response |-> None]
    ELSE IF a.error_status_codes # None /\ Contains(a.error_status_codes[1], resp[1].status)
    THEN [kind |-> "err", response |-> None]
    ELSE [kind |-> "ok", response |-> resp]

HandleResponse_NeverIntercepts(a, resp) ==
    IF resp = None THEN [kind |-> "err", response |-> None]
    ELSE [kind |-> "ok",
          response |-> Some([status |-> resp[1].status,
                             headers |-> HeaderRemove(resp[1].headers, "transfer-encoding")])]

HandleResponse(a, resp) ==
    IF resp = None THEN [kind |-> "err", response |-> None]
    ELSE IF a.error_status_codes # None /\ Contains(a.error_status_codes[1], resp[1].status)
    THEN [kind |-> "err", response |-> None]
    ELSE [kind |-> "ok",
          response |-> Some([status |-> resp[1].status,
                             headers |-> HeaderRemove(resp[1].headers, "transfer-encoding")])]

\* ------------------------------------------------------------- inputs

NewEvent(method, raw_path, request_context, ctx_ok, headers, body) ==
    [method |-> method,
     raw_path |-> raw_path,
     query |-> None,
     request_context |-> request_context,
     lambda_context |-> "lambda-context",
     request_context_ok |-> ctx_ok,
     lambda_context_ok |-> TRUE,
     headers |-> headers,
     body |-> body]

NoHeaders == <<>>

\* The events of the concurrency specifications.
FewEvents ==
    {NewEvent("GET", <<"/", "a">>, "ApiGatewayV2", ok, NoHeaders, "Empty") : ok \in BOOLEAN}

RawPaths == {p \in SeqsUpTo(Chars, MaxPathLen) : p # <<>> /\ p[1] = "/"}

BasePaths == {None} \cup {Some(p) : p \in SeqsUpTo(Chars, MaxBaseLen)}

\* The events of the path specification.
PathEvents ==
    {NewEvent(m, p, c, TRUE, NoHeaders, "Empty") :
        m \in {"GET", "POST"}, p \in RawPaths, c \in {"ApiGatewayV2", "PassThrough"}}

\* What a probe attempt can meet.
FewOutcomes ==
    {Outcome(FALSE, None), Outcome(TRUE, Some(200)), Outcome(TRUE, Some(500))}

Statuses == {100, 200, 399, 400, 403, 499, 500, 503}

AllOutcomes ==
    {Outcome(FALSE, None), Outcome(TRUE, None)} \cup {Outcome(TRUE, Some(st)) : st \in Statuses}

NewResponse(status, headers) == [status |-> status, headers |-> headers]

\* What the application answers to a forwarded request (None: transport error).
FewResponses ==
    {None, Some(NewResponse(200, [n \in {"transfer-encoding"} |-> Text("chunked")]))}

\* AdapterOptions::default: port and readiness_check_port.
DefaultPort == 8080

NewAdapter(async_init, protocol, min_unhealthy_status, base_path, path_through_path) ==
    [healthcheck_port |-> UrlPort("http", DefaultPort),
     healthcheck_protocol |-> protocol,
     healthcheck_min_unhealthy_status |-> min_unhealthy_status,
     async_init |-> async_init,
     base_path |-> base_path,
     path_through_path |-> path_through_path,
     compression |-> FALSE,
     invoke_mode |-> "Buffered",
     authorization_source |-> None,
     error_status_codes |-> None]

DefaultPassThroughPath == <<"/", "e">>

\* ------------------------------------------------------------- initial states

IdleFetch ==
    [pc |-> "idle", event |-> None, flagRead |-> "unread", probed |-> FALSE,
     sawSuccess |-> FALSE, outReq |-> None, sends |-> 0, warned |-> FALSE,
     received |-> None,
     result |-> [kind |-> "none", response |-> None]]

NoEnv == <<>>

\* Adapter::new in a process whose environment is e: the flag starts false,
\* nothing has run yet.
ConstructedIn(e, a, strategy) ==
    /\ env = e
    /\ options = None
    /\ parsed = None
    /\ runLog = <<>>
    /\ adapter = a
    /\ ready_at_init = FALSE
    /\ alive = TRUE
    /\ panic_strategy = strategy
    /\ initPc = "idle"
    /\ initAttempts = 0
    /\ initSawSuccess = FALSE
    /\ lastProbe = None
    /\ fetch = [r \in Requests |-> IdleFetch]
    /\ regPc = "unspawned"
    /\ regLog = <<>>
    /\ register_res = None

Constructed(a, strategy) == ConstructedIn(NoEnv, a, strategy)

\* AdapterOptions::default: readiness_check_min_unhealthy_status.
DefaultMinUnhealthyStatus == 500

PanicStrategies == {"unwind", "abort"}

Init ==
    \E async_init \in BOOLEAN, protocol \in {"Http", "Tcp"} :
        Constructed(NewAdapter(async_init, protocol, DefaultMinUnhealthyStatus, None,
                               DefaultPassThroughPath),
                    "unwind")

\* ------------------------------------------------------------- check_init_health

\* The call of check_init_health: the first poll issues the first probe attempt,
\* or panics on the address of the TCP probe.
CheckInitHealthStart ==
    /\ alive
    /\ initPc = "idle"
    /\ initPc' = IF TcpAddressPanics(adapter) THEN "panicked" ELSE "probing"
    /\ initAttempts' = Bump(initAttempts)
    /\ UNCHANGED <<bootVars, adapter, ready_at_init, alive, panic_strategy, initSawSuccess,
                   lastProbe, fetch, regVars>>

\* A probe attempt of check_init_health ends with outcome o: the retry loop ends
\* and the flag is stored, or the loop sleeps 10 ms.
InitProbeResult(o) ==
    /\ alive
    /\ initPc = "probing"
    /\ LET ok == CheckWebReadiness(adapter.healthcheck_protocol,
                                   adapter.healthcheck_min_unhealthy_status, o)
       IN  /\ lastProbe' = Some([outcome |-> o, ok |-> ok])
           /\ initSawSuccess' = (initSawSuccess \/ ok)
           /\ IF RetryEnds(ok)
              THEN /\ initPc' = "done"
                   /\ ready_at_init' =
                        IF adapter.async_init THEN TimeoutResult(TRUE, ok) ELSE ok
              ELSE /\ initPc' = "sleeping"
                   /\ UNCHANGED ready_at_init
    /\ UNCHANGED <<bootVars, adapter, alive, panic_strategy, initAttempts, fetch, regVars>>

\* The 10 ms sleep of check_init_health's loop ends: the next attempt is issued.
InitSleepDone ==
    /\ alive
    /\ initPc = "sleeping"
    /\ initPc' = "probing"
    /\ initAttempts' = Bump(initAttempts)
    /\ UNCHANGED <<bootVars, adapter, ready_at_init, alive, panic_strategy, initSawSuccess,
                   lastProbe, fetch, regVars>>

\* The 9.8 s timer of check_init_health elapses: the loop is dropped where it
\* stands and the default is stored.
InitTimeout ==
    /\ alive
    /\ adapter.async_init
    /\ initPc \in {"probing", "sleeping"}
    /\ initPc' = "done"
    /\ ready_at_init' = TimeoutResult(FALSE, FALSE)
    /\ UNCHANGED <<bootVars, adapter, alive, panic_strategy, initAttempts, initSawSuccess,
                   lastProbe, fetch, regVars>>

\* ------------------------------------------------------------- fetch_response

\* fetch_response from the request context to client.request(..): the request is
\* handed to the client, or a `?` ends the call with an error.
Forwarded(f, ev) ==
    LET b == BuildRequest(adapter, ev)
    IN  IF b = None
        THEN [f EXCEPT !.pc = "done", !.result = [kind |-> "err", response |-> None]]
        ELSE [f EXCEPT !.pc = "sent", !.outReq = b, !.sends = @ + 1,
                       !.warned = WarnsHeaderNotFound(adapter, WithContextHeaders(ev))]

\* Service::call with event ev: fetch_response runs up to its first await.
FetchStart(r, ev) ==
    /\ alive
    /\ fetch[r].pc = "idle"
    /\ LET f0 == [fetch[r] EXCEPT
                    !.event = Some(ev),
                    !.flagRead = IF ~adapter.async_init THEN "unread"
                                 ELSE IF ready_at_init THEN "true" ELSE "false"]
       IN  IF NeedsInlineProbe(adapter, ready_at_init)
           THEN fetch' = [fetch EXCEPT ![r] =
                            [f0 EXCEPT !.pc = IF TcpAddressPanics(adapter)
                                              THEN "panicked" ELSE "probing",
                                       !.probed = TRUE]]
           ELSE fetch' = [fetch EXCEPT ![r] = Forwarded(f0, ev)]
    /\ UNCHANGED <<bootVars, adapter, ready_at_init, alive, panic_strategy, initVars, lastProbe,
                   regVars>>

\* A probe attempt of the inline loop ends with outcome o: the loop ends, the flag
\* is set and the request goes on, or the loop sleeps 10 ms.
FetchProbeResult(r, o) ==
    /\ alive
    /\ fetch[r].pc = "probing"
    /\ LET ok == CheckWebReadiness(adapter.healthcheck_protocol,
                                   adapter.healthcheck_min_unhealthy_status, o)
           f1 == [fetch[r] EXCEPT !.sawSuccess = @ \/ ok]
       IN  /\ IF RetryEnds(ok)
              THEN /\ ready_at_init' = TRUE
                   /\ fetch' = [fetch EXCEPT ![r] = Forwarded(f1, f1.event[1])]
              ELSE /\ fetch' = [fetch EXCEPT ![r] = [f1 EXCEPT !.pc = "sleeping"]]
                   /\ UNCHANGED ready_at_init
    /\ UNCHANGED <<bootVars, adapter, alive, panic_strategy, initVars, lastProbe, regVars>>

\* The 10 ms sleep of the inline loop ends: the next attempt is issued.
FetchSleepDone(r) ==
    /\ alive
    /\ fetch[r].pc = "sleeping"
    /\ fetch' = [fetch EXCEPT ![r] = [@ EXCEPT !.pc = "probing"]]
    /\ UNCHANGED <<bootVars, adapter, ready_at_init, alive, panic_strategy, initVars, lastProbe,
                   regVars>>

\* client.request(..).await ends with resp: the rest of fetch_response.
FetchResponse_RetriesOnFailure(r, resp) ==
    /\ alive
    /\ fetch[r].pc = "sent"
    /\ IF resp = None /\ fetch[r].sends < 2
       THEN fetch' = [fetch EXCEPT ![r] = [@ EXCEPT !.sends = @ + 1]]
       ELSE fetch' = [fetch EXCEPT ![r] =
                        [@ EXCEPT !.pc = "done", !.received = Some(resp),
                                  !.result = HandleResponse(adapter, resp)]]
    /\ UNCHANGED <<bootVars, adapter, ready_at_init, alive, panic_strategy, initVars, lastProbe,
                   regVars>>

FetchResponse(r, resp) ==
    /\ alive
    /\ fetch[r].pc = "sent"
    /\ fetch' = [fetch EXCEPT ![r] =
                    [@ EXCEPT !.pc = "done", !.received = Some(resp),
                              !.result = HandleResponse(adapter, resp)]]
    /\ UNCHANGED <<bootVars, adapter, ready_at_init, alive, panic_strategy, initVars, lastProbe,
                   regVars>>

\* ------------------------------------------------------------- run

\* The body of Adapter::run: the service and the entry point it is handed to.
Dispatch_CompressedIsBuffered(compression, invoke_mode) ==
    IF compression
    THEN [service |-> "Compression(Adapter)", entry |-> "run"]
    ELSE [service |-> "Adapter",
          entry |-> IF invoke_mode = "Buffered" THEN "run" ELSE "run_with_streaming_response"]

Dispatch(compression, invoke_mode) ==
    IF compression
    THEN [service |-> "Compression(Adapter)",
          entry |-> IF invoke_mode = "Buffered" THEN "run" ELSE "run_with_streaming_response"]
    ELSE [service |-> "Adapter",
          entry |-> IF invoke_mode = "Buffered" THEN "run" ELSE "run_with_streaming_response"]

\* Adapter::run: takes the adapter and hands the service to an entry point of
\* the platform, which then delivers the events.
Run ==
    /\ alive
    /\ runLog = <<>>
    /\ runLog' = Append(runLog, Dispatch(adapter.compression, adapter.invoke_mode))
    /\ UNCHANGED <<env, options, parsed, adapter, ready_at_init, alive, panic_strategy,
                   initVars, lastProbe, fetch, regVars>>

\* ------------------------------------------------------------- extension registrar

RegResponses ==
    {None} \cup {Some([status |-> st, id |-> id]) :
                    st \in {200, 201, 500}, id \in {None, Some("ext-1")}}

RegisterRequest == [method |-> "POST", path |-> "/2020-01-01/extension/register", id |-> None]

NextRequest(id) == [method |-> "GET", path |-> "/2020-01-01/extension/event/next", id |-> id]

\* The registration went through: the request returned a response (the first
\* unwrap) and its status is 200 OK.
RegistrationOk_AnyStatus(res) == res # None

RegistrationOk(res) == res # None /\ res[1].status = 200

\* A panic inside the task tokio::task::spawn started: built to unwind, the
\* runtime catches it and only the task ends; built to abort, the process ends.
TaskPanics ==
    /\ regPc' = "panicked"
    /\ alive' = (panic_strategy # "abort")

\* register_default_extension awaiting the registration request itself.
RegisterDefaultExtension_Awaits ==
    /\ alive
    /\ regPc = "unspawned"
    /\ regPc' = "registering"
    /\ regLog' = Append(regLog, RegisterRequest)
    /\ UNCHANGED <<bootVars, adapter, ready_at_init, alive, panic_strategy, initVars, lastProbe,
                   fetch, register_res>>

\* register_default_extension: spawns the task and returns.
RegisterDefaultExtension ==
    /\ alive
    /\ regPc = "unspawned"
    /\ regPc' = "spawned"
    /\ UNCHANGED <<bootVars, adapter, ready_at_init, alive, panic_strategy, initVars, lastProbe,
                   fetch, regLog, register_res>>

\* The task runs up to its first await: the registration POST is sent.
RegSendRegister ==
    /\ alive
    /\ regPc = "spawned"
    /\ regPc' = "registering"
    /\ regLog' = Append(regLog, RegisterRequest)
    /\ UNCHANGED <<bootVars, adapter, ready_at_init, alive, panic_strategy, initVars, lastProbe,
                   fetch, register_res>>

\* The registration request ends with res (None: transport error): the task
\* panics, or sends the "next event" GET with the identifier of the response.
RegRegisterResponse(res) ==
    /\ alive
    /\ regPc = "registering"
    /\ register_res' = Some(res)
    /\ IF RegistrationOk(res) /\ res[1].id # None
       THEN /\ regLog' = Append(regLog, NextRequest(res[1].id))
            /\ regPc' = "polling"
            /\ UNCHANGED alive
       ELSE /\ TaskPanics
            /\ UNCHANGED regLog
    /\ UNCHANGED <<bootVars, adapter, ready_at_init, panic_strategy, initVars, lastProbe, fetch>>

\* The "next event" request ends: the task ends, by returning or by the unwrap.
RegNextResponse(ok) ==
    /\ alive
    /\ regPc = "polling"
    /\ IF ok
       THEN /\ regPc' = "exited"
            /\ UNCHANGED alive
       ELSE TaskPanics
    /\ UNCHANGED <<bootVars, adapter, ready_at_init, panic_strategy, initVars, lastProbe, fetch,
                   regLog, register_res>>

\* ------------------------------------------------------------- options

UpperCase == <<"A", "B", "C", "D", "E", "F", "G", "H", "I", "J", "K", "L", "M",
               "N", "O", "P", "Q", "R", "S", "T", "U", "V", "W", "X", "Y", "Z">>
LowerCase == <<"a", "b", "c", "d", "e", "f", "g", "h", "i", "j", "k", "l", "m",
               "n", "o", "p", "q", "r", "s", "t", "u", "v", "w", "x", "y", "z">>

\* str::to_lowercase
ToLowercase(s) ==
    [i \in DOMAIN s |->
        IF \E k \in DOMAIN UpperCase : UpperCase[k] = s[i]
        THEN LowerCase[CHOOSE k \in DOMAIN UpperCase : UpperCase[k] = s[i]]
        ELSE s[i]]

\* str::contains
ContainsText(s, pat) ==
    \E i \in 0..(Len(s) - Len(pat)) : SubSeq(s, i + 1, i + Len(pat)) = pat

\* env::var(name).ok() in the environment e
Var(e, name) == IF name \in DOMAIN e THEN Some(e[name]) ELSE None

UnwrapOr(o, d) == IF o = None THEN d ELSE o[1]

\* impl From<&str> for Protocol
ProtocolFrom_CaseSensitive(value) ==
    IF value = <<"t", "c", "p">> THEN "Tcp" ELSE "Http"

ProtocolFrom(value) ==
    IF ToLowercase(value) = <<"h", "t", "t", "p">> THEN "Http"
    ELSE IF ToLowercase(value) = <<"t", "c", "p">> THEN "Tcp"
    ELSE "Http"

\* impl From<&str> for LambdaInvokeMode
LambdaInvokeModeFrom(value) ==
    IF ToLowercase(value) = <<"b", "u", "f", "f", "e", "r", "e", "d">>
    THEN "Buffered"
    ELSE IF ToLowercase(value) = <<"r", "e", "s", "p", "o", "n", "s", "e", "_", "s", "t", "r", "e", "a", "m">>
    THEN "ResponseStream"
    ELSE "Buffered"

\* The variables of the framework categories.
FrameworkVars ==
    {"SPRING_WEBFLUX_VERSION", "REACTOR_VERSION", "VERTX_VERSION", "VERTX_HOME",
     "QUARKUS_REACTIVE", "QUARKUS_MUTINY_VERSION", "MICRONAUT_REACTOR",
     "MICRONAUT_REACTIVE", "HELIDON_REACTIVE", "AKKA_VERSION", "AKKA_HTTP_VERSION",
     "FASTAPI_VERSION", "STARLETTE_VERSION", "SANIC_VERSION", "QUART_APP", "QUART_ENV",
     "AIOHTTP_VERSION", "CHANNELS_VERSION", "PYTHON_ASYNC_APP", "NESTJS_VERSION",
     "FASTIFY_VERSION", "KOA_VERSION", "NODE_STREAMING_APP", "ASYNC_RUBY",
     "HANAMI_STREAMING", "REACTPHP_VERSION", "SWOOLE_VERSION", "LARAVEL_ASYNC",
     "GO_ASYNC_APP", "ECHO_VERSION", "ACTIX_WEB_VERSION", "ROCKET_VERSION"}

\* The profile settings and the text each must hold (empty: being set is enough).
ProfileIndicators ==
    {<<"SPRING_PROFILES_ACTIVE", <<"r", "e", "a", "c", "t", "i", "v", "e">>>>,
     <<"DJANGO_SETTINGS_MODULE", <<"c", "h", "a", "n", "n", "e", "l", "s">>>>,
     <<"QUARKUS_VERSION", <<>>>>,
     <<"MICRONAUT_VERSION", <<>>>>,
     <<"LARAVEL_VERSION", <<>>>>}

StreamingContentTypes ==
    {<<"t", "e", "x", "t", "/", "e", "v", "e", "n", "t", "-", "s", "t", "r", "e", "a", "m">>,
     <<"a", "p", "p", "l", "i", "c", "a", "t", "i", "o", "n", "/", "o", "c", "t", "e", "t", "-", "s", "t", "r", "e", "a", "m">>,
     <<"m", "u", "l", "t", "i", "p", "a", "r", "t", "/">>}

\* Some variable of a framework category is set.
FrameworkVarSet(e) == \E n \in FrameworkVars : Var(e, n) # None

\* Some profile setting is set and holds its text.
ProfileIndicated(e) ==
    \E ind \in ProfileIndicators :
        /\ Var(e, ind[1]) # None
        /\ ind[2] = <<>> \/ ContainsText(Var(e, ind[1])[1], ind[2])

\* The content-type check is on and HTTP_ACCEPT names a streaming type.
StreamingTypeAccepted(e) ==
    /\ ToLowercase(UnwrapOr(Var(e, "AWS_LWA_CHECK_CONTENT_TYPES"), <<"t", "r", "u", "e">>)) = <<"t", "r", "u", "e">>
    /\ Var(e, "HTTP_ACCEPT") # None
    /\ \E t \in StreamingContentTypes : ContainsText(ToLowercase(Var(e, "HTTP_ACCEPT")[1]), t)

\* The variable is set to the text, in any case of letters.
IsSetTo(e, name, text) == Var(e, name) # None /\ ToLowercase(Var(e, name)[1]) = text

\* detect_reactive_framework in the environment e
DetectReactiveFramework_IgnoresDisable(e) ==
    IF IsSetTo(e, "AWS_LWA_IS_REACTIVE_APPLICATION", <<"t", "r", "u", "e">>) THEN TRUE
    ELSE IF IsSetTo(e, "AWS_LWA_IS_REACTIVE_APPLICATION", <<"f", "a", "l", "s", "e">>) THEN FALSE
    ELSE FrameworkVarSet(e) \/ ProfileIndicated(e) \/ StreamingTypeAccepted(e)

DetectReactiveFramework(e) ==
    IF IsSetTo(e, "AWS_LWA_IS_REACTIVE_APPLICATION", <<"t", "r", "u", "e">>) THEN TRUE
    ELSE IF IsSetTo(e, "AWS_LWA_IS_REACTIVE_APPLICATION", <<"f", "a", "l", "s", "e">>) THEN FALSE
    ELSE IF IsSetTo(e, "AWS_LWA_DISABLE_FRAMEWORK_DETECTION", <<"t", "r", "u", "e">>) THEN FALSE
    ELSE IF FrameworkVarSet(e) THEN TRUE
    ELSE IF ProfileIndicated(e) THEN TRUE
    ELSE IF StreamingTypeAccepted(e) THEN TRUE
    ELSE FALSE

\* The invoke_mode field of AdapterOptions::default: the mode, and the verdict
\* of detect_reactive_framework when the function was called (None when not).
ResolveInvokeMode_DetectionFirst(e) ==
    IF DetectReactiveFramework(e)
    THEN [invoke_mode |-> "ResponseStream", detection |-> Some(TRUE)]
    ELSE [invoke_mode |-> LambdaInvokeModeFrom(UnwrapOr(Var(e, "AWS_LWA_INVOKE_MODE"), <<>>)),
          detection |-> Some(FALSE)]

ResolveInvokeMode(e) ==
    IF Var(e, "AWS_LWA_INVOKE_MODE") # None
    THEN [invoke_mode |-> LambdaInvokeModeFrom(Var(e, "AWS_LWA_INVOKE_MODE")[1]),
          detection |-> None]
    ELSE IF DetectReactiveFramework(e)
    THEN [invoke_mode |-> "ResponseStream", detection |-> Some(TRUE)]
    ELSE [invoke_mode |-> "Buffered", detection |-> Some(FALSE)]

\* ------------------------------------------------------------- parse_status_codes

\* str::split: the parts of s between the occurrences of sep.
RECURSIVE Split(_, _)
Split(s, sep) ==
    IF \E i \in DOMAIN s : s[i] = sep
    THEN LET i == CHOOSE k \in DOMAIN s : s[k] = sep /\ \A j \in 1..(k - 1) : s[j] # sep
         IN  <<SubSeq(s, 1, i - 1)>> \o Split(SubSeq(s, i + 1, Len(s)), sep)
    ELSE <<s>>

\* str::trim: s without its leading and trailing white space.
Trim(s) ==
    LET solid == {i \in DOMAIN s : s[i] # " "}
    IN  IF solid = {} THEN <<>>
        ELSE SubSeq(s, CHOOSE i \in solid : \A j \in solid : i <= j,
                       CHOOSE i \in solid : \A j \in solid : j <= i)

DigitChars == <<"0", "1", "2", "3", "4", "5", "6", "7", "8", "9">>

IsDigit(c) == \E k \in DOMAIN DigitChars : DigitChars[k] = c

DigitValue(c) == (CHOOSE k \in DOMAIN DigitChars : DigitChars[k] = c) - 1

\* The number a text of digits denotes.
RECURSIVE DecimalValue(_)
DecimalValue(ds) ==
    IF ds = <<>> THEN 0
    ELSE 10 * DecimalValue(SubSeq(ds, 1, Len(ds) - 1)) + DigitValue(ds[Len(ds)])

\* The largest u16.
U16Max == 65535

\* str::parse::<u16>: an optional "+", then digits, the value within u16.
ParseU16(s) ==
    LET ds == IF s # <<>> /\ s[1] = "+" THEN Tail(s) ELSE s
    IN  IF ds = <<>> \/ \E i \in DOMAIN ds : ~IsDigit(ds[i]) THEN None
        ELSE IF DecimalValue(ds) > U16Max THEN None
        ELSE Some(DecimalValue(ds))

\* (start..=end).collect()
RangeInclusive_Exclusive(start, end) == [i \in 1..(end - start) |-> start + i - 1]

RangeInclusive(start, end) == [i \in 1..(end - start + 1) |-> start + i - 1]

\* The closure of flat_map: the codes one part of the input gives.
PartCodes(part0) ==
    LET part == Trim(part0)
        range == Split(part, "-")
    IN  IF \E i \in DOMAIN part : part[i] = "-"
        THEN IF Len(range) = 2 /\ ParseU16(range[1]) # None /\ ParseU16(range[2]) # None
             THEN RangeInclusive(ParseU16(range[1])[1], ParseU16(range[2])[1])
             ELSE <<>>
        ELSE IF ParseU16(part) # None THEN <<ParseU16(part)[1]>> ELSE <<>>

\* The concatenation of the sequences of ss, in order.
RECURSIVE Flatten(_)
Flatten(ss) == IF ss = <<>> THEN <<>> ELSE Head(ss) \o Flatten(Tail(ss))

ParseStatusCodes(input) ==
    LET parts == Split(input, ",")
    IN  Flatten([k \in DOMAIN parts |-> PartCodes(parts[k])])

\* A call of parse_status_codes.
CallParseStatusCodes(input) ==
    /\ alive
    /\ parsed = None
    /\ parsed' = Some([fn |-> "parse_status_codes", input |-> input,
                       output |-> ParseStatusCodes(input)])
    /\ UNCHANGED <<env, options, runLog, adapter, ready_at_init, alive, panic_strategy,
                   initVars, lastProbe, fetch, regVars>>

\* A call of Protocol::from.
CallProtocolFrom(value) ==
    /\ alive
    /\ parsed = None
    /\ parsed' = Some([fn |-> "Protocol::from", input |-> value,
                       output |-> ProtocolFrom(value)])
    /\ UNCHANGED <<env, options, runLog, adapter, ready_at_init, alive, panic_strategy,
                   initVars, lastProbe, fetch, regVars>>

\* A call of LambdaInvokeMode::from.
CallLambdaInvokeModeFrom(value) ==
    /\ alive
    /\ parsed = None
    /\ parsed' = Some([fn |-> "LambdaInvokeMode::from", input |-> value,
                       output |-> LambdaInvokeModeFrom(value)])
    /\ UNCHANGED <<env, options, runLog, adapter, ready_at_init, alive, panic_strategy,
                   initVars, lastProbe, fetch, regVars>>

\* ------------------------------------------------------------- HTTP client options

\* The digits of the largest u64.
U64MaxDigits == <<"1", "8", "4", "4", "6", "7", "4", "4", "0", "7", "3", "7", "0", "9", "5", "5", "1", "6", "1", "5">>

\* A text of digits without its leading zeros.
RECURSIVE StripZeros(_)
StripZeros(ds) == IF ds # <<>> /\ ds[1] = "0" THEN StripZeros(Tail(ds)) ELSE ds

\* For two texts of digits of one length: a denotes at most b.
DigitsLeq(a, b) ==
    \/ a = b
    \/ \E i \in DOMAIN a : /\ DigitValue(a[i]) < DigitValue(b[i])
                           /\ \A j \in 1..(i - 1) : a[j] = b[j]

\* str::parse::<u64> and, on a 64-bit target, str::parse::<usize>: an optional
\* "+", then digits, the value within u64.
ParseU64(s) ==
    LET ds == IF s # <<>> /\ s[1] = "+" THEN Tail(s) ELSE s
        n == StripZeros(ds)
    IN  IF ds = <<>> \/ \E i \in DOMAIN ds : ~IsDigit(ds[i]) THEN None
        ELSE IF Len(n) > Len(U64MaxDigits) THEN None
        ELSE IF Len(n) = Len(U64MaxDigits) /\ ~DigitsLeq(n, U64MaxDigits) THEN None
        ELSE Some(DecimalValue(n))

\* str::parse::<bool>
ParseBool(s) ==
    IF s = <<"t", "r", "u", "e">> THEN Some(TRUE)
    ELSE IF s = <<"f", "a", "l", "s", "e">> THEN Some(FALSE)
    ELSE None

\* env::var(name).ok().and_then(|v| v.parse().ok())
ParsedNumber(e, name) == IF Var(e, name) = None THEN None ELSE ParseU64(Var(e, name)[1])

\* http_keepalive, in seconds
HttpKeepalive_NoDefault(e) == ParsedNumber(e, "AWS_LWA_HTTP_KEEPALIVE_SEC")

HttpKeepalive(e) ==
    IF ParsedNumber(e, "AWS_LWA_HTTP_KEEPALIVE_SEC") # None
    THEN ParsedNumber(e, "AWS_LWA_HTTP_KEEPALIVE_SEC")
    ELSE Some(30)

\* env::var(name).unwrap_or_else(|_| default).parse().unwrap_or(fallback)
BoolOption(e, name, default, fallback) ==
    UnwrapOr(ParseBool(UnwrapOr(Var(e, name), default)), fallback)

\* The HTTP client fields of AdapterOptions::default (durations in seconds).
HttpClientOptions(e) ==
    [http_keepalive |-> HttpKeepalive(e),
     http_nodelay |-> BoolOption(e, "AWS_LWA_HTTP_NODELAY", <<"t", "r", "u", "e">>, TRUE),
     http_reuse_address |->
        BoolOption(e, "AWS_LWA_HTTP_REUSE_ADDRESS", <<"t", "r", "u", "e">>, TRUE),
     http_pool_idle_timeout |->
        UnwrapOr(ParsedNumber(e, "AWS_LWA_HTTP_POOL_IDLE_TIMEOUT_SEC"), 60),
     http_pool_max_idle |-> UnwrapOr(ParsedNumber(e, "AWS_LWA_HTTP_POOL_MAX_IDLE"), 32),
     http_http2_only |->
        BoolOption(e, "AWS_LWA_HTTP_HTTP2_ONLY", <<"f", "a", "l", "s", "e">>, FALSE)]

\* AdapterOptions::default reads the environment.
DefaultOptions ==
    /\ alive
    /\ options = None
    /\ options' = Some(ResolveInvokeMode(env) @@ HttpClientOptions(env)
                       @@ [authorization_source |-> Var(env, "AWS_LWA_AUTHORIZATION_SOURCE"),
                           error_status_codes |->
                              IF Var(env, "AWS_LWA_ERROR_STATUS_CODES") = None THEN None
                              ELSE Some(ParseStatusCodes(env["AWS_LWA_ERROR_STATUS_CODES"]))])
    /\ UNCHANGED <<env, parsed, runLog, adapter, ready_at_init, alive, panic_strategy,
                   initVars, lastProbe, fetch, regVars>>

\* ------------------------------------------------------------- specifications

InitHealthStep(outcomes) ==
    \/ CheckInitHealthStart
    \/ \E o \in outcomes : InitProbeResult(o)
    \/ InitSleepDone
    \/ InitTimeout

FetchStep(r, events, outcomes, responses) ==
    \/ \E ev \in events : FetchStart(r, ev)
    \/ \E o \in outcomes : FetchProbeResult(r, o)
    \/ FetchSleepDone(r)
    \/ \E resp \in responses : FetchResponse(r, resp)

\* The entry point Adapter::run called delivers the events to Service::call.
Serve(r, events, outcomes, responses) ==
    /\ runLog # <<>>
    /\ FetchStep(r, events, outcomes, responses)

RegistrarStep ==
    \/ RegisterDefaultExtension
    \/ RegSendRegister
    \/ \E res \in RegResponses : RegRegisterResponse(res)
    \/ \E ok \in BOOLEAN : RegNextResponse(ok)

\* check_init_health and fetch_response on clones of one Adapter, in any order.
Next ==
    \/ InitHealthStep(FewOutcomes)
    \/ \E r \in Requests : FetchStep(r, FewEvents, FewOutcomes, FewResponses)

Spec == Init /\ [][Next]_vars

\* The scheduling the runtime guarantees: a timer that is armed elapses, a sleep
\* ends, a request that was sent ends with some outcome.  Nothing makes the
\* application pass a probe.
Fairness ==
    /\ WF_vars(InitTimeout)
    /\ WF_vars(InitSleepDone)
    /\ WF_vars(\E o \in FewOutcomes : InitProbeResult(o))
    /\ \A r \in Requests :
        /\ WF_vars(FetchSleepDone(r))
        /\ WF_vars(\E o \in FewOutcomes : FetchProbeResult(r, o))
        /\ WF_vars(\E resp \in FewResponses : FetchResponse(r, resp))

FairSpec == Init /\ [][Next]_vars /\ Fairness

\* A single probe attempt, over every threshold and outcome.
Thresholds == {100, 400, DefaultMinUnhealthyStatus}

ReadinessPorts == {80, 3000, DefaultPort}

InitProbe ==
    \E async_init \in BOOLEAN, protocol \in {"Http", "Tcp"}, t \in Thresholds,
       port \in ReadinessPorts :
        Constructed([NewAdapter(async_init, protocol, t, None, DefaultPassThroughPath)
                        EXCEPT !.healthcheck_port = UrlPort("http", port)],
                    "unwind")

NextProbe ==
    \/ InitHealthStep(AllOutcomes)
    \/ FetchStep(1, FewEvents, FewOutcomes, FewResponses)

ProbeSpec == InitProbe /\ [][NextProbe]_vars

\* The registrar task beside the readiness check and the requests.
InitReg ==
    \E async_init \in BOOLEAN, strategy \in PanicStrategies :
        Constructed(NewAdapter(async_init, "Http", DefaultMinUnhealthyStatus, None,
                               DefaultPassThroughPath),
                    strategy)

NextReg ==
    \/ RegistrarStep
    \/ InitHealthStep(FewOutcomes)
    \/ \E r \in Requests : FetchStep(r, FewEvents, FewOutcomes, FewResponses)

RegSpec == InitReg /\ [][NextReg]_vars

\* The path steps of fetch_response, over every base path, path and method.
PassThroughPaths == {DefaultPassThroughPath, <<"e">>}

InitPath ==
    \E base_path \in BasePaths, path_through_path \in PassThroughPaths :
        Constructed(NewAdapter(FALSE, "Http", DefaultMinUnhealthyStatus, base_path,
                               path_through_path),
                    "unwind")

NextPath ==
    \/ \E ev \in PathEvents : FetchStart(1, ev)
    \/ \E resp \in FewResponses : FetchResponse(1, resp)

PathSpec == InitPath /\ [][NextPath]_vars

\* The header and status steps of fetch_response, over every authorization
\* source, error-status list, header set and answer of the application.
AuthorizationSources ==
    {None} \cup {Some(s) : s \in {"x-src", "X-Src", "authorization", "Authorization",
                                  "x-amzn-request-context", "no name"}}

ErrorStatusLists == {None, Some(<<>>), Some(<<500>>), Some(<<404, 500, 501, 502>>)}

HeaderValues(n) ==
    CASE n = "authorization" -> {Text("old")}
      [] n = "x-src" -> {Text("v1"), Text("v2")}
      [] n = "x-amzn-request-context" -> {Text("forged")}
      [] OTHER -> {Text("o")}

HeaderMaps ==
    UNION {{h \in [D -> {Text("old"), Text("v1"), Text("v2"), Text("forged"), Text("o")}] :
                \A n \in D : h[n] \in HeaderValues(n)} :
           D \in SUBSET {"authorization", "x-src", "x-amzn-request-context", "x-other"}}

HeaderEvents ==
    {NewEvent("GET", <<"/", "a">>, "ApiGatewayV2", TRUE, h, "Empty") : h \in HeaderMaps}

ResponseHeaderMaps ==
    {[n \in {"content-type"} |-> Text("o")],
     [n \in {"content-type", "transfer-encoding"} |->
        IF n = "transfer-encoding" THEN Text("chunked") ELSE Text("o")]}

AllResponses ==
    {None} \cup {Some(NewResponse(st, h)) : st \in {200, 404, 500, 502}, h \in ResponseHeaderMaps}

InitTranslate ==
    \E src \in AuthorizationSources, codes \in ErrorStatusLists :
        Constructed([NewAdapter(FALSE, "Http", DefaultMinUnhealthyStatus, None,
                                DefaultPassThroughPath)
                        EXCEPT !.authorization_source = src, !.error_status_codes = codes],
                    "unwind")

\* Events whose request context or execution metadata makes no header value.
UnserializableEvents ==
    {[ev EXCEPT !.request_context_ok = FALSE] : ev \in FewEvents}
        \cup {[ev EXCEPT !.lambda_context_ok = FALSE] : ev \in FewEvents}

NextTranslate ==
    \/ \E ev \in HeaderEvents \cup UnserializableEvents : FetchStart(1, ev)
    \/ \E resp \in AllResponses : FetchResponse(1, resp)

TranslateSpec == InitTranslate /\ [][NextTranslate]_vars

\* AdapterOptions::default, over the environments of the process.
EnvValues(name) ==
    CASE name = "AWS_LWA_INVOKE_MODE" ->
            {None, Some(<<"r", "e", "s", "p", "o", "n", "s", "e", "_", "s", "t", "r", "e", "a", "m">>),
             Some(<<"B", "u", "f", "f", "e", "r", "e", "d">>), Some(<<"x">>)}
      [] name = "AWS_LWA_IS_REACTIVE_APPLICATION" ->
            {None, Some(<<"T", "R", "U", "E">>), Some(<<"f", "a", "l", "s", "e">>), Some(<<"x">>)}
      [] name = "AWS_LWA_DISABLE_FRAMEWORK_DETECTION" ->
            {None, Some(<<"T", "r", "u", "e">>), Some(<<"f", "a", "l", "s", "e">>)}
      [] name = "SPRING_PROFILES_ACTIVE" ->
            {None, Some(<<"x", ",", "r", "e", "a", "c", "t", "i", "v", "e">>),
             Some(<<"x">>)}
      [] name = "AWS_LWA_CHECK_CONTENT_TYPES" -> {None, Some(<<"f", "a", "l", "s", "e">>)}
      [] name = "HTTP_ACCEPT" ->
            {None, Some(<<"T", "e", "x", "t", "/", "E", "v", "e", "n", "t", "-", "S", "t", "r", "e", "a", "m">>),
             Some(<<"x">>)}
      [] OTHER -> {None, Some(<<"x">>)}

\* The environment in which the variables of c that are Some(text) are set.
EnvOf(c) == [n \in {m \in DOMAIN c : c[m] # None} |-> c[n][1]]

InitOptions ==
    \E mode \in EnvValues("AWS_LWA_INVOKE_MODE"),
       reactive \in EnvValues("AWS_LWA_IS_REACTIVE_APPLICATION"),
       disable \in EnvValues("AWS_LWA_DISABLE_FRAMEWORK_DETECTION"),
       first \in EnvValues("SPRING_WEBFLUX_VERSION"),
       last \in EnvValues("ROCKET_VERSION"),
       profile \in EnvValues("SPRING_PROFILES_ACTIVE"),
       quarkus \in EnvValues("QUARKUS_VERSION"),
       check \in EnvValues("AWS_LWA_CHECK_CONTENT_TYPES"),
       accept \in EnvValues("HTTP_ACCEPT") :
        ConstructedIn(EnvOf("AWS_LWA_INVOKE_MODE" :> mode
                            @@ "AWS_LWA_IS_REACTIVE_APPLICATION" :> reactive
                            @@ "AWS_LWA_DISABLE_FRAMEWORK_DETECTION" :> disable
                            @@ "SPRING_WEBFLUX_VERSION" :> first
                            @@ "ROCKET_VERSION" :> last
                            @@ "SPRING_PROFILES_ACTIVE" :> profile
                            @@ "QUARKUS_VERSION" :> quarkus
                            @@ "AWS_LWA_CHECK_CONTENT_TYPES" :> check
                            @@ "HTTP_ACCEPT" :> accept),
                      NewAdapter(FALSE, "Http", DefaultMinUnhealthyStatus, None,
                                 DefaultPassThroughPath),
                      "unwind")

NextOptions == DefaultOptions

OptionsSpec == InitOptions /\ [][NextOptions]_vars

\* AdapterOptions::default, over the settings of the HTTP client.
NumberTexts ==
    {None, Some(<<"6", "0">>),
     Some(<<"1", "2", "0">>),
     Some(<<"6", "4">>),
     Some(<<"+", "7">>),
     Some(<<"0">>),
     Some(<<>>),
     Some(<<"x">>),
     Some(<<"-", "1">>),
     Some(<<"6", " ">>),
     Some(<<"1", "8", "4", "4", "6", "7", "4", "4", "0", "7", "3", "7", "0", "9", "5", "5", "1", "6", "1", "6">>)}

BoolTexts ==
    {None, Some(<<"t", "r", "u", "e">>),
     Some(<<"f", "a", "l", "s", "e">>),
     Some(<<"T", "R", "U", "E">>),
     Some(<<"1">>)}

InitClientOptions ==
    \E keepalive \in NumberTexts,
       idle \in {None, Some(<<"1", "2", "0">>), Some(<<"x">>),
                 Some(U64MaxDigits \o <<"0">>)},
       max_idle \in {None, Some(<<"6", "4">>), Some(<<"+", "7">>), Some(<<>>)},
       nodelay \in BoolTexts,
       reuse \in {None, Some(<<"f", "a", "l", "s", "e">>), Some(<<"T", "R", "U", "E">>)},
       http2 \in {None, Some(<<"t", "r", "u", "e">>), Some(<<"1">>)},
       codes \in {None, Some(<<"5", "0", "0", ",", "5", "0", "2", "-", "5", "0", "4">>)} :
        ConstructedIn(EnvOf("AWS_LWA_HTTP_KEEPALIVE_SEC" :> keepalive
                            @@ "AWS_LWA_HTTP_POOL_IDLE_TIMEOUT_SEC" :> idle
                            @@ "AWS_LWA_HTTP_POOL_MAX_IDLE" :> max_idle
                            @@ "AWS_LWA_HTTP_NODELAY" :> nodelay
                            @@ "AWS_LWA_HTTP_REUSE_ADDRESS" :> reuse
                            @@ "AWS_LWA_HTTP_HTTP2_ONLY" :> http2
                            @@ "AWS_LWA_ERROR_STATUS_CODES" :> codes),
                      NewAdapter(FALSE, "Http", DefaultMinUnhealthyStatus, None,
                                 DefaultPassThroughPath),
                      "unwind")

ClientOptionsSpec == InitClientOptions /\ [][NextOptions]_vars

\* The parsing functions, each called once on a text.
StatusChars == {"1", "9", ",", "-", " ", "+"}

\* The inputs of the test of parse_status_codes.
TestStatusInputs ==
    {<<"5", "0", "0", ",", "5", "0", "2", "-", "5", "0", "4", ",", "4", "2", "2">>,
     <<"5", "0", "0", ",", " ", "5", "0", "2", "-", "5", "0", "4", ",", " ", "4", "2", "2">>,
     <<"5", "0", "0">>,
     <<"5", "0", "0", "-", "5", "0", "2">>,
     <<"i", "n", "v", "a", "l", "i", "d">>,
     <<"5", "0", "0", "-", "i", "n", "v", "a", "l", "i", "d">>,
     <<>>}

\* Inputs at the limits of u16, of ranges and of white space.
EdgeStatusInputs ==
    {<<"6", "5", "5", "3", "5">>,
     <<"6", "5", "5", "3", "6">>,
     <<"7", "0", "0", "0", "0">>,
     <<"6", "5", "5", "3", "4", "-", "6", "5", "5", "3", "6">>,
     <<"6", "5", "5", "3", "4", "-", "6", "5", "5", "3", "5">>,
     <<"5", "0", "2", "-", "5", "0", "0">>,
     <<"5", "0", "0", " ", "-", " ", "5", "0", "2">>,
     <<"5", "0", "0", "-", "5", "0", "2", "-", "5", "0", "4">>,
     <<"-", "5", "0", "0">>,
     <<",", "5", "0", "0", ",", ",">>,
     <<" ", "5", "0", "0", " ">>,
     <<"+", "5", "0", "0">>}

StatusInputs == SeqsUpTo(StatusChars, MaxStatusLen) \cup TestStatusInputs \cup EdgeStatusInputs

ValueChars == {"t", "c", "p", "T", "C", "P"}

ProtocolInputs ==
    SeqsUpTo(ValueChars, MaxValueLen)
        \cup {<<"h", "t", "t", "p">>,
            <<"H", "T", "T", "P">>,
            <<"H", "t", "t", "p">>,
            <<"t", "c", "p", " ">>,
            <<"u", "d", "p">>,
            <<>>,
            <<"h", "t", "t", "p", "s">>}

LambdaInvokeModeInputs ==
    SeqsUpTo(ValueChars, MaxValueLen)
        \cup {<<"r", "e", "s", "p", "o", "n", "s", "e", "_", "s", "t", "r", "e", "a", "m">>,
            <<"R", "E", "S", "P", "O", "N", "S", "E", "_", "S", "T", "R", "E", "A", "M">>,
            <<"R", "e", "s", "p", "o", "n", "s", "e", "_", "S", "t", "r", "e", "a", "m">>,
            <<"b", "u", "f", "f", "e", "r", "e", "d">>,
            <<"B", "U", "F", "F", "E", "R", "E", "D">>,
            <<"r", "e", "s", "p", "o", "n", "s", "e", "-", "s", "t", "r", "e", "a", "m">>,
            <<"r", "e", "s", "p", "o", "n", "s", "e", "_", "s", "t", "r", "e", "a", "m", " ">>,
            <<"r", "e", "s", "p", "o", "n", "s", "e", "s", "t", "r", "e", "a", "m">>,
            <<"s", "t", "r", "e", "a", "m">>,
            <<>>}

InitParse ==
    Constructed(NewAdapter(FALSE, "Http", DefaultMinUnhealthyStatus, None,
                           DefaultPassThroughPath),
                "unwind")

NextParse ==
    \/ \E input \in StatusInputs : CallParseStatusCodes(input)
    \/ \E value \in ProtocolInputs : CallProtocolFrom(value)
    \/ \E value \in LambdaInvokeModeInputs : CallLambdaInvokeModeFrom(value)

ParseSpec == InitParse /\ [][NextParse]_vars

\* Adapter::run and the requests it serves, over both switches of run, both
\* kinds of startup and an error-status list.
RunResponses ==
    FewResponses \cup {Some(NewResponse(500, [n \in {"transfer-encoding"} |-> Text("chunked")]))}

InvokeModes == {"Buffered", "ResponseStream"}

InitRun ==
    \E compression \in BOOLEAN, invoke_mode \in InvokeModes, async_init \in BOOLEAN,
       codes \in {None, Some(<<500>>)} :
        Constructed([NewAdapter(async_init, "Http", DefaultMinUnhealthyStatus, None,
                                DefaultPassThroughPath)
                        EXCEPT !.compression = compression, !.invoke_mode = invoke_mode,
                               !.error_status_codes = codes],
                    "unwind")

NextRun ==
    \/ Run
    \/ \E r \in Requests : Serve(r, FewEvents, FewOutcomes, RunResponses)

RunSpec == InitRun /\ [][NextRun]_vars

\* The binary: Adapter::new, check_init_health().await, run().await.
RunAfterInitHealth_AtOnce == Run

RunAfterInitHealth ==
    /\ initPc = "done"
    /\ Run

NextMain ==
    \/ InitHealthStep(FewOutcomes)
    \/ RunAfterInitHealth
    \/ \E r \in Requests : Serve(r, FewEvents, FewOutcomes, FewResponses)

MainSpec == Init /\ [][NextMain]_vars

\* ------------------------------------------------------------- claims

\* C1: the shared flag is monotonic: it starts false and no step of
\* check_init_health or of any fetch_response stores false over true.
C1_FlagMonotonic == [][ready_at_init => ready_at_init']_vars

\* C2: an HTTP probe attempt reports ready exactly when the GET returned a
\* response whose status S satisfies 100 <= S < T; a transport error and a status
\* outside the range are not ready.
C2_HttpProbeVerdict ==
    (lastProbe # None /\ adapter.healthcheck_protocol = "Http") =>
        LET o == lastProbe[1].outcome
            t == adapter.healthcheck_min_unhealthy_status
        IN  lastProbe[1].ok <=>
                (o.response # None /\ 100 <= o.response[1] /\ o.response[1] < t)

C2_Witness ==
    /\ lastProbe # None
    /\ adapter.healthcheck_protocol = "Http"
    /\ adapter.healthcheck_min_unhealthy_status = 500
    /\ lastProbe[1].outcome.response = Some(500)
    /\ ~lastProbe[1].ok

\* C3: with async-init, check_init_health returns once called; when the timer
\* elapses with no successful attempt the flag it stores is false, when an attempt
\* succeeds in time it stores true; after it returned its loop issues no attempt.
C3_BoundedStartup ==
    /\ [][(adapter.async_init /\ initPc # "done" /\ initPc' = "done")
            => (ready_at_init' = initSawSuccess')]_vars
    /\ [][initPc = "done" => (initPc' = "done" /\ initAttempts' = initAttempts)]_vars
    /\ (adapter.async_init /\ initPc \in {"probing", "sleeping"}) ~> (initPc = "done")

C3_Witness ==
    /\ adapter.async_init
    /\ initPc = "done"
    /\ initAttempts >= 2
    /\ ~initSawSuccess
    /\ ~ready_at_init

\* C4: a request that reads the flag as false under async-init runs the inline
\* probe loop, and the step that leaves the loop sets the flag and goes on with
\* the request (an error then comes only from building the request); a request
\* that reads true, or runs without async-init, issues no probe attempt.
C4_InlineProbe ==
    /\ [](\A r \in Requests :
            fetch[r].pc # "idle" =>
                IF adapter.async_init /\ fetch[r].flagRead = "false"
                THEN fetch[r].probed
                ELSE ~fetch[r].probed)
    /\ [][\A r \in Requests :
            (fetch[r].pc = "probing" /\ fetch'[r].pc \in {"sent", "done"}) =>
                /\ ready_at_init'
                /\ (fetch'[r].pc = "done")
                    = ~(fetch[r].event[1].request_context_ok
                            /\ fetch[r].event[1].lambda_context_ok)]_vars

C4_Witness ==
    \E r \in Requests :
        /\ fetch[r].flagRead = "false"
        /\ fetch[r].probed
        /\ fetch[r].pc = "sent"
        /\ ready_at_init

\* No probe attempt of any loop has succeeded: the application is not ready.
NoProbePassed == ~initSawSuccess /\ \A q \in Requests : ~fetch[q].sawSuccess

\* C5 as stated: after the startup probe timed out, a request in the inline probe
\* loop is eventually forwarded even if the application never passes a probe.
C5_ForwardedAnyway ==
    \A r \in Requests :
        ([]NoProbePassed) =>
            ((adapter.async_init /\ initPc = "done" /\ fetch[r].pc = "probing")
                ~> (fetch[r].pc \in {"sent", "done"}))

\* C5 as amended: a request that read the flag as false is forwarded only after
\* an attempt of its own inline loop succeeded; until then it stays in the loop.
C5_ForwardedAfterSuccess ==
    \A r \in Requests :
        (adapter.async_init /\ fetch[r].flagRead = "false"
            /\ fetch[r].pc \in {"sent", "done"}) => fetch[r].sawSuccess

C5_Witness ==
    \E r \in Requests :
        /\ adapter.async_init
        /\ initPc = "done"
        /\ ~initSawSuccess
        /\ fetch[r].flagRead = "false"
        /\ fetch[r].probed
        /\ fetch[r].sawSuccess
        /\ fetch[r].pc = "sent"

\* C6: without async-init, check_init_health has returned exactly when one of its
\* attempts succeeded, and whenever it has returned the flag is true.
C6_BlockingStartup ==
    ~adapter.async_init =>
        /\ (initPc = "done") <=> initSawSuccess
        /\ (initPc = "done") => ready_at_init

C6_Witness ==
    /\ ~adapter.async_init
    /\ initPc = "done"
    /\ initAttempts >= 2
    /\ ready_at_init

\* C7: a failed registration ends the whole process, not only the registrar task.
C7_RegistrationFailureIsFatal == (regPc = "panicked") => ~alive

IsSuccessStatus(st) == 200 <= st /\ st < 300

\* C8: the registrar sends the registration POST first and once; the "next
\* event" GET is sent at most once, only after a registration response with a
\* success status, with the identifier of that response; the task ends after it.
C8_RegistrarOrder ==
    /\ Len(regLog) <= 2
    /\ (regLog = <<>>) <=> (regPc \in {"unspawned", "spawned"})
    /\ regLog # <<>> => regLog[1] = RegisterRequest
    /\ (regPc = "registering") => (Len(regLog) = 1 /\ register_res = None)
    /\ (regPc \in {"polling", "exited"}) => Len(regLog) = 2
    /\ Len(regLog) = 2 =>
        /\ register_res # None
        /\ register_res[1] # None
        /\ IsSuccessStatus(register_res[1][1].status)
        /\ register_res[1][1].id # None
        /\ regLog[2] = NextRequest(register_res[1][1].id)
    /\ (register_res # None
            /\ (register_res[1] = None \/ ~IsSuccessStatus(register_res[1][1].status)))
        => (Len(regLog) = 1 /\ regPc = "panicked")

C8_Witness ==
    /\ regPc = "exited"
    /\ Len(regLog) = 2
    /\ regLog[2].id = Some("ext-1")

\* The raw path without one leading occurrence of the base path.
StripPrefixOnce(base_path, raw_path) ==
    IF base_path # None /\ IsPrefix(base_path[1], raw_path)
    THEN DropFirst(raw_path, Len(base_path[1]))
    ELSE raw_path

\* C9: the forwarded path is the raw path without one leading occurrence of the
\* base path and nothing beyond it (a path that does not begin with it, or no
\* base path, leaves it unchanged), for a request the pass-through step leaves alone.
C9_StripsOnePrefix ==
    \A r \in Requests :
        (fetch[r].outReq # None
            /\ ~(fetch[r].event[1].method = "POST"
                    /\ fetch[r].event[1].request_context = "PassThrough")) =>
            fetch[r].outReq[1].url_path
                = SetPath(StripPrefixOnce(adapter.base_path, fetch[r].event[1].raw_path))

\* C10: the path is replaced by the pass-through path exactly when the method is
\* POST and the request context is pass-through; otherwise it is the path the
\* base-path step produced.
C10_PassThroughPath ==
    \A r \in Requests :
        fetch[r].outReq # None =>
            LET ev == fetch[r].event[1]
                q == fetch[r].outReq[1]
            IN  /\ q.path = IF ev.method = "POST" /\ ev.request_context = "PassThrough"
                            THEN adapter.path_through_path
                            ELSE q.stripped
                /\ q.url_path = IF q.path # <<>> /\ q.path[1] = "/"
                                THEN q.path
                                ELSE <<"/">> \o q.path

C10_Witness ==
    \E r \in Requests :
        /\ fetch[r].outReq # None
        /\ adapter.base_path = Some(<<"/", "a">>)
        /\ fetch[r].event[1].raw_path = <<"/", "a", "/", "b">>
        /\ fetch[r].event[1].method = "POST"
        /\ fetch[r].event[1].request_context = "PassThrough"
        /\ fetch[r].outReq[1].stripped = <<"/", "b">>
        /\ fetch[r].outReq[1].path = adapter.path_through_path

\* The headers the authorization step of request r starts from.
AuthorizationStepIn(r) == WithContextHeaders(fetch[r].event[1])

\* The application answered request r: the request was sent and a response came back.
Answered(r) ==
    fetch[r].pc = "done" /\ fetch[r].received # None /\ fetch[r].received[1] # None

\* The status of the answer to request r.
ReceivedStatus(r) == fetch[r].received[1][1].status

\* The configured error statuses, as a set (empty when none is configured).
ConfiguredErrorStatuses ==
    IF adapter.error_status_codes = None THEN {}
    ELSE {adapter.error_status_codes[1][i] : i \in DOMAIN adapter.error_status_codes[1]}

\* The authorization step of request r did what is stated for it; keepsSource
\* names the sources that may stay in the outbound request.
AuthorizationStepOk(r, keepsSource) ==
    LET h == AuthorizationStepIn(r)
        out == fetch[r].outReq[1].headers
        src == adapter.authorization_source
    IN  IF src = None
        THEN out = h /\ ~fetch[r].warned
        ELSE IF ContainsKey(h, src[1])
        THEN LET x == HdrName(src[1])[1]
             IN  /\ "authorization" \in DOMAIN out
                 /\ out["authorization"] = h[x]
                 /\ x \in keepsSource \/ x \notin DOMAIN out
                 /\ DOMAIN out \ {x, "authorization"} = DOMAIN h \ {x, "authorization"}
                 /\ \A n \in DOMAIN h \ {x, "authorization"} : out[n] = h[n]
                 /\ ~fetch[r].warned
        ELSE out = h /\ fetch[r].warned

\* C11 as stated: a configured source X that the request carries with value v
\* is moved to authorization (authorization holds v, X is absent from the
\* outbound request); a configured source that the request lacks leaves the
\* headers as they are and is warned about; no configured source, no change.
C11_SourceAlwaysAbsent ==
    \A r \in Requests : fetch[r].outReq # None => AuthorizationStepOk(r, {})

\* C11, amended: as above, except that a source X that names the authorization
\* header itself stays in the outbound request, with its value v.
C11_AuthorizationRemap ==
    \A r \in Requests : fetch[r].outReq # None => AuthorizationStepOk(r, {"authorization"})

\* A request whose source header was moved over an authorization header it carried.
C11_Witness ==
    \E r \in Requests :
        /\ fetch[r].outReq # None
        /\ adapter.authorization_source = Some("X-Src")
        /\ "x-src" \in DOMAIN fetch[r].event[1].headers
        /\ "authorization" \in DOMAIN fetch[r].event[1].headers
        /\ fetch[r].outReq[1].headers["authorization"] = Text("v2")

NoExplicitMode == Var(env, "AWS_LWA_INVOKE_MODE") = None

\* A marker of a reactive framework is present: a framework variable, a profile
\* setting that holds its text, or a streaming content type the check is on for.
MarkerPresent == FrameworkVarSet(env) \/ ProfileIndicated(env) \/ StreamingTypeAccepted(env)

\* AWS_LWA_IS_REACTIVE_APPLICATION says true or false.
ReactiveOverride ==
    \/ IsSetTo(env, "AWS_LWA_IS_REACTIVE_APPLICATION", <<"t", "r", "u", "e">>)
    \/ IsSetTo(env, "AWS_LWA_IS_REACTIVE_APPLICATION", <<"f", "a", "l", "s", "e">>)

\* AWS_LWA_DISABLE_FRAMEWORK_DETECTION says true.
DetectionDisabled ==
    IsSetTo(env, "AWS_LWA_DISABLE_FRAMEWORK_DETECTION", <<"t", "r", "u", "e">>)

\* An explicit invoke mode is the parsed one, and detection was not consulted.
ExplicitModeWins ==
    ~NoExplicitMode =>
        /\ options[1].invoke_mode = LambdaInvokeModeFrom(env["AWS_LWA_INVOKE_MODE"])
        /\ options[1].detection = None

\* A marker in the widest sense: AWS_LWA_IS_REACTIVE_APPLICATION=true counts too.
AnyMarkerPresent ==
    MarkerPresent \/ IsSetTo(env, "AWS_LWA_IS_REACTIVE_APPLICATION", <<"t", "r", "u", "e">>)

\* C13 as stated: with no explicit invoke mode, a marker present gives
\* ResponseStream and no marker gives Buffered; an explicit mode is the parsed
\* one whatever the markers, and detection is not consulted.
C13_MarkersAloneDecide ==
    options # None =>
        /\ NoExplicitMode /\ AnyMarkerPresent => options[1].invoke_mode = "ResponseStream"
        /\ NoExplicitMode /\ ~AnyMarkerPresent => options[1].invoke_mode = "Buffered"
        /\ ExplicitModeWins

\* C13, amended: with no explicit invoke mode, no true or false in
\* AWS_LWA_IS_REACTIVE_APPLICATION and detection not disabled, a marker present
\* gives ResponseStream and no marker gives Buffered; an explicit mode is the
\* parsed one whatever the markers, and detection is not consulted.
C13_InvokeModeResolution ==
    options # None =>
        /\ NoExplicitMode /\ ~ReactiveOverride /\ ~DetectionDisabled /\ MarkerPresent
                => options[1].invoke_mode = "ResponseStream"
        /\ NoExplicitMode /\ ~ReactiveOverride /\ ~DetectionDisabled /\ ~MarkerPresent
                => options[1].invoke_mode = "Buffered"
        /\ ExplicitModeWins

\* Options resolved to ResponseStream by a profile setting alone.
C13_Witness ==
    /\ options # None
    /\ NoExplicitMode /\ ~ReactiveOverride /\ ~DetectionDisabled
    /\ ProfileIndicated(env) /\ ~FrameworkVarSet(env) /\ ~StreamingTypeAccepted(env)
    /\ options[1].invoke_mode = "ResponseStream" /\ options[1].detection = Some(TRUE)

\* C14 as stated: with detection disabled and no explicit invoke mode,
\* detect_reactive_framework returns false and the mode is Buffered, whatever
\* the other variables hold.
C14_DisableBeatsEverything ==
    options # None /\ DetectionDisabled /\ NoExplicitMode =>
        options[1].invoke_mode = "Buffered" /\ options[1].detection = Some(FALSE)

\* C14, amended: with detection disabled, no explicit invoke mode and
\* AWS_LWA_IS_REACTIVE_APPLICATION not true, detect_reactive_framework returns
\* false and the mode is Buffered, whatever the other variables hold.
C14_DetectionDisableable ==
    /\ options # None /\ DetectionDisabled /\ NoExplicitMode
    /\ ~IsSetTo(env, "AWS_LWA_IS_REACTIVE_APPLICATION", <<"t", "r", "u", "e">>)
    => (options[1].invoke_mode = "Buffered" /\ options[1].detection = Some(FALSE))

\* Options resolved to Buffered with detection disabled and every marker present.
C14_Witness ==
    /\ options # None /\ DetectionDisabled /\ NoExplicitMode
    /\ FrameworkVarSet(env) /\ ProfileIndicated(env) /\ StreamingTypeAccepted(env)
    /\ options[1].invoke_mode = "Buffered"

\* The places that bound the tokens of a text: before it, its commas, after it.
TokenBounds(input) == {0, Len(input) + 1} \cup {i \in DOMAIN input : input[i] = ","}

\* The k-th token of a text, in input order.
Token(input, k) ==
    LET bounds == TokenBounds(input)
        from == CHOOSE c \in bounds : Cardinality({d \in bounds : d < c}) = k - 1
        to == CHOOSE c \in bounds : Cardinality({d \in bounds : d < c}) = k
    IN  SubSeq(input, from + 1, to - 1)

\* What a token contributes: [n] for a number n, the numbers from a up to b for
\* 'a-b' with numbers a and b, nothing else.  A number is what u16 parsing takes.
Contribution(token) ==
    LET t == Trim(token)
        dashes == {i \in DOMAIN t : /\ t[i] = "-"
                                    /\ ParseU16(SubSeq(t, 1, i - 1)) # None
                                    /\ ParseU16(SubSeq(t, i + 1, Len(t))) # None}
    IN  IF ParseU16(t) # None THEN <<ParseU16(t)[1]>>
        ELSE IF dashes # {}
        THEN LET i == CHOOSE d \in dashes : TRUE
                 a == ParseU16(SubSeq(t, 1, i - 1))[1]
                 b == ParseU16(SubSeq(t, i + 1, Len(t)))[1]
             IN  [k \in 1..(b - a + 1) |-> a + k - 1]
        ELSE <<>>

\* C15: parse_status_codes returns, in input order, the concatenation of what
\* each comma-separated token contributes after trimming: [n] for a number,
\* the inclusive range for 'a-b', nothing for a malformed or empty token; so
\* "500,502-504,422" gives [500, 502, 503, 504, 422].
C15_ParseStatusCodes ==
    parsed # None /\ parsed[1].fn = "parse_status_codes" =>
        /\ parsed[1].output =
              Flatten([k \in 1..(Cardinality(TokenBounds(parsed[1].input)) - 1) |->
                          Contribution(Token(parsed[1].input, k))])
        /\ parsed[1].input = <<"5", "0", "0", ",", "5", "0", "2", "-", "5", "0", "4", ",", "4", "2", "2">>
              => parsed[1].output = <<500, 502, 503, 504, 422>>

\* The call on "500, 502-504, 422" returned the five codes.
C15_Witness ==
    /\ parsed # None
    /\ parsed[1].fn = "parse_status_codes"
    /\ parsed[1].input = <<"5", "0", "0", ",", " ", "5", "0", "2", "-", "5", "0", "4", ",", " ", "4", "2", "2">>
    /\ parsed[1].output = <<500, 502, 503, 504, 422>>

\* C16: Adapter::run invokes exactly one entry point, once: the buffered one
\* iff the mode is Buffered, the streaming one iff it is ResponseStream, and
\* the service it hands over is wrapped by compression iff compression is on,
\* whatever the mode.
C16_RunDispatch ==
    /\ Len(runLog) <= 1
    /\ runLog # <<>> =>
        /\ runLog[1].entry \in {"run", "run_with_streaming_response"}
        /\ runLog[1].entry = "run" <=> adapter.invoke_mode = "Buffered"
        /\ runLog[1].entry = "run_with_streaming_response"
              <=> adapter.invoke_mode = "ResponseStream"
        /\ runLog[1].service \in {"Adapter", "Compression(Adapter)"}
        /\ runLog[1].service = "Compression(Adapter)" <=> adapter.compression

\* run handed the compressed service to the streaming entry point, and a
\* request was served.
C16_Witness ==
    /\ runLog = <<[service |-> "Compression(Adapter)", entry |-> "run_with_streaming_response"]>>
    /\ adapter.compression /\ adapter.invoke_mode = "ResponseStream"
    /\ \E r \in Requests : fetch[r].pc = "done"

\* C17: fetch_response sends at most one outbound request per event and ends
\* in exactly one of a response or an error with no response; a failed send,
\* a failed serialization or an error status is not followed by another send.
C17_AtMostOneSend ==
    \A r \in Requests :
        /\ fetch[r].sends <= 1
        /\ fetch[r].pc # "done" => fetch[r].result.kind = "none"
        /\ fetch[r].pc = "done" =>
            \/ fetch[r].result.kind = "ok" /\ fetch[r].result.response # None
                    /\ fetch[r].sends = 1
            \/ fetch[r].result.kind = "err" /\ fetch[r].result.response = None

\* One request ended on a failed send and another on an error status, each
\* after one send.
C17_Witness ==
    \E r1, r2 \in Requests :
        /\ fetch[r1].pc = "done" /\ fetch[r1].received = Some(None)
        /\ fetch[r1].sends = 1 /\ fetch[r1].result.kind = "err"
        /\ fetch[r2].pc = "done" /\ fetch[r2].received # None /\ fetch[r2].received[1] # None
        /\ fetch[r2].sends = 1 /\ fetch[r2].result.kind = "err"

\* C18: no fetch_response reads the flag, or starts at all, before
\* check_init_health has finished and written the flag.
C18_InitHealthBeforeRequests ==
    \A r \in Requests : fetch[r].pc # "idle" => initPc = "done"

\* A request read the flag as false after the startup probe had timed out.
C18_Witness ==
    \E r \in Requests :
        /\ fetch[r].flagRead = "false"
        /\ initPc = "done"
        /\ ~initSawSuccess

\* Two characters are one letter in either case, or the same character.
SameLetter(c, d) ==
    \/ c = d
    \/ \E k \in DOMAIN UpperCase : {c, d} = {UpperCase[k], LowerCase[k]}

\* The text s is the word, whatever the case of its letters.
IsWord(s, word) == Len(s) = Len(word) /\ \A i \in DOMAIN s : SameLetter(s[i], word[i])

\* C19: Protocol::from gives Tcp for "tcp" in any case of letters and Http for
\* every other text, the empty one too; LambdaInvokeMode::from gives
\* ResponseStream for "response_stream" in any case and Buffered for every
\* other text; each call returns a variant.
C19_LenientParsing ==
    parsed # None =>
        /\ parsed[1].fn = "Protocol::from" =>
              parsed[1].output = IF IsWord(parsed[1].input, <<"t", "c", "p">>)
                                 THEN "Tcp" ELSE "Http"
        /\ parsed[1].fn = "LambdaInvokeMode::from" =>
              parsed[1].output =
                  IF IsWord(parsed[1].input, <<"r", "e", "s", "p", "o", "n", "s", "e", "_", "s", "t", "r", "e", "a", "m">>)
                  THEN "ResponseStream" ELSE "Buffered"

\* Protocol::from was called on "tCP" and gave Tcp.
C19_Witness ==
    /\ parsed # None
    /\ parsed[1].fn = "Protocol::from"
    /\ parsed[1].input = <<"t", "C", "P">>
    /\ parsed[1].output = "Tcp"

\* C20: a TCP probe attempt reports ready exactly when the connection to the
\* host and readiness port completed, for every readiness port, port 80 too,
\* whatever the threshold and the HTTP answer; it does not crash.
C20_TcpProbeVerdict ==
    adapter.healthcheck_protocol = "Tcp" =>
        /\ initPc # "panicked"
        /\ \A r \in Requests : fetch[r].pc # "panicked"
        /\ lastProbe # None => (lastProbe[1].ok <=> lastProbe[1].outcome.connected)

\* The number option holds the number its variable spells, else the default.
NumberOptionOk(value, name, default) ==
    IF name \in DOMAIN env /\ ParseU64(env[name]) # None
    THEN value = ParseU64(env[name])[1]
    ELSE value = default

\* The switch holds true or false as its variable spells it, else the default.
SwitchOptionOk(value, name, default) ==
    IF name \in DOMAIN env /\ env[name] = <<"t", "r", "u", "e">> THEN value = TRUE
    ELSE IF name \in DOMAIN env /\ env[name] = <<"f", "a", "l", "s", "e">> THEN value = FALSE
    ELSE value = default

\* C21: each HTTP client option of AdapterOptions::default is the value parsed
\* from its variable when the variable is set and parses, else its default:
\* keepalive 30 s, no-delay true, address reuse true, idle-pool timeout 60 s,
\* max idle 32, HTTP/2-only false; the call always returns options.
C21_HttpClientOptions ==
    options # None =>
        /\ options[1].http_keepalive # None
        /\ NumberOptionOk(options[1].http_keepalive[1], "AWS_LWA_HTTP_KEEPALIVE_SEC", 30)
        /\ NumberOptionOk(options[1].http_pool_idle_timeout,
                          "AWS_LWA_HTTP_POOL_IDLE_TIMEOUT_SEC", 60)
        /\ NumberOptionOk(options[1].http_pool_max_idle, "AWS_LWA_HTTP_POOL_MAX_IDLE", 32)
        /\ SwitchOptionOk(options[1].http_nodelay, "AWS_LWA_HTTP_NODELAY", TRUE)
        /\ SwitchOptionOk(options[1].http_reuse_address, "AWS_LWA_HTTP_REUSE_ADDRESS", TRUE)
        /\ SwitchOptionOk(options[1].http_http2_only, "AWS_LWA_HTTP_HTTP2_ONLY", FALSE)

\* The options of the test, and options whose keepalive does not parse.
C21_Witness ==
    /\ options # None
    /\ {"AWS_LWA_HTTP_KEEPALIVE_SEC", "AWS_LWA_HTTP_POOL_IDLE_TIMEOUT_SEC",
        "AWS_LWA_HTTP_POOL_MAX_IDLE", "AWS_LWA_HTTP_HTTP2_ONLY"} \subseteq DOMAIN env
    /\ env["AWS_LWA_HTTP_KEEPALIVE_SEC"] = <<"x">>
    /\ env["AWS_LWA_HTTP_POOL_IDLE_TIMEOUT_SEC"] = <<"1", "2", "0">>
    /\ env["AWS_LWA_HTTP_POOL_MAX_IDLE"] = <<"6", "4">>
    /\ env["AWS_LWA_HTTP_HTTP2_ONLY"] = <<"t", "r", "u", "e">>
    /\ options[1].http_keepalive = Some(30)
    /\ options[1].http_pool_idle_timeout = 120
    /\ options[1].http_pool_max_idle = 64
    /\ options[1].http_http2_only

ContextHeaderNames == {"x-amzn-request-context", "x-amzn-lambda-context"}

\* The serialized value the event of request r gives the context header.
ContextValue(r, name) ==
    IF name = "x-amzn-request-context" THEN Serialized(fetch[r].event[1].request_context)
    ELSE Serialized(fetch[r].event[1].lambda_context)

\* The request of r that was sent carries the context header with the value of
\* its event.
CarriesContext(r, name) ==
    /\ name \in DOMAIN fetch[r].outReq[1].headers
    /\ fetch[r].outReq[1].headers[name] = ContextValue(r, name)

\* A call whose context does not serialize returned an error and sent nothing.
FailedSerializationSendsNothing(r) ==
    (/\ fetch[r].event # None
     /\ ~fetch[r].event[1].request_context_ok \/ ~fetch[r].event[1].lambda_context_ok
     /\ fetch[r].pc \notin {"idle", "probing", "sleeping", "panicked"})
    => /\ fetch[r].pc = "done"
       /\ fetch[r].result = [kind |-> "err", response |-> None]
       /\ fetch[r].outReq = None
       /\ fetch[r].sends = 0

\* C22: every request sent carries the two context headers with the
\* serialized values of its event, over any inbound values; a failed
\* serialization returns an error and no request is sent.
C22_ContextHeaders ==
    \A r \in Requests :
        /\ fetch[r].outReq # None =>
              \A name \in ContextHeaderNames : CarriesContext(r, name)
        /\ FailedSerializationSendsNothing(r)

\* C23: a response fetch_response returns has no transfer-encoding header, and
\* has the status and every other header of the answer that was received.
C23_NoTransferEncoding ==
    \A r \in Requests :
        (fetch[r].pc = "done" /\ fetch[r].result.kind = "ok") =>
            LET got == fetch[r].received[1][1]
                ret == fetch[r].result.response[1]
            IN  /\ "transfer-encoding" \notin DOMAIN ret.headers
                /\ ret.status = got.status
                /\ DOMAIN ret.headers = DOMAIN got.headers \ {"transfer-encoding"}
                /\ \A n \in DOMAIN ret.headers : ret.headers[n] = got.headers[n]

\* An answer with a transfer-encoding header and a status outside the configured
\* error statuses was returned without the header.
C23_Witness ==
    \E r \in Requests :
        /\ fetch[r].pc = "done" /\ fetch[r].result.kind = "ok"
        /\ adapter.error_status_codes = Some(<<500>>)
        /\ fetch[r].received[1][1].status = 502
        /\ "transfer-encoding" \in DOMAIN fetch[r].received[1][1].headers
        /\ DOMAIN fetch[r].result.response[1].headers = {"content-type"}

RegistrarRunning == regPc \in {"spawned", "registering", "polling", "exited"}

InitHealthPending == initPc \in {"idle", "probing", "sleeping"}

FetchPending(r) == fetch[r].pc \in {"idle", "probing", "sleeping", "sent"}

\* C25: register_default_extension returns before anything of the registration
\* exchange has happened; the registrar's steps touch nothing of the readiness
\* check or of the requests; and while the registrar waits for its registration
\* response, is parked on the long-poll or has finished, the readiness check and
\* every request that have not ended can take their next step.
C25_RegistrarDetached ==
    /\ [][regPc = "unspawned" /\ regPc' # regPc
            => regPc' = "spawned" /\ regLog' = regLog /\ register_res' = register_res]_vars
    /\ [][regPc' # regPc
            => fetch' = fetch /\ initVars' = initVars /\ ready_at_init' = ready_at_init]_vars
    /\ [](alive /\ RegistrarRunning =>
            /\ InitHealthPending => ENABLED InitHealthStep(FewOutcomes)
            /\ \A r \in Requests :
                 FetchPending(r) => ENABLED FetchStep(r, FewEvents, FewOutcomes, FewResponses))

C25_Witness ==
    /\ regPc = "registering"
    /\ initPc = "done"
    /\ \A r \in Requests : fetch[r].pc = "done" /\ fetch[r].sends = 1

\* Request r was sent to the application.
WasForwarded(r) == fetch[r].sends > 0

\* A probe attempt that justifies forwarding r: one of r's own inline loop, one
\* of check_init_health, or one of another request's inline loop.
ProbePassedFor(r) ==
    \/ fetch[r].flagRead = "false" /\ fetch[r].sawSuccess
    \/ fetch[r].flagRead = "true"
        /\ \/ initSawSuccess
           \/ \E q \in Requests \ {r} : fetch[q].flagRead = "false" /\ fetch[q].sawSuccess

\* C26: with async-init, a request is sent only after a probe attempt of the
\* startup check, of its own inline loop or of another request's inline loop
\* succeeded; the flag is true only after such an attempt, and a step of
\* fetch_response that sets it ends an inline loop whose last attempt succeeded.
C26_ForwardedOnlyAfterProbe ==
    /\ [](adapter.async_init =>
            /\ \A r \in Requests : WasForwarded(r) => ProbePassedFor(r)
            /\ ready_at_init => ~NoProbePassed)
    /\ [][(adapter.async_init /\ ~ready_at_init /\ ready_at_init' /\ fetch' # fetch)
            => \E r \in Requests :
                 /\ fetch[r].pc = "probing" /\ fetch'[r].pc # "probing"
                 /\ fetch'[r].sawSuccess]_vars

C26_Witness ==
    /\ adapter.async_init
    /\ ~initSawSuccess
    /\ \E r \in Requests :
         /\ fetch[r].flagRead = "true" /\ WasForwarded(r)
         /\ \E q \in Requests \ {r} : fetch[q].flagRead = "false" /\ WasForwarded(q)

\* The step of request r that ends its inline probe loop: the first step of
\* fetch_response when it has to probe.
EndsInlineProbe(r) == fetch[r].pc = "probing" /\ fetch'[r].pc \notin {"probing", "sleeping"}

\* C27: with async-init disabled no request reads the flag or probes, and only
\* a step of check_init_health changes the flag; in both modes every step of
\* fetch_response other than the end of its inline probe loop leaves the flag
\* unchanged, and no step changes another field of the Adapter, whether the
\* request succeeds or fails.
C27_FetchFrame ==
    /\ [](~adapter.async_init =>
            \A r \in Requests : fetch[r].flagRead = "unread" /\ ~fetch[r].probed)
    /\ [][(~adapter.async_init /\ ready_at_init' # ready_at_init)
            => (fetch' = fetch /\ initPc \in {"probing", "sleeping"} /\ initPc' = "done")]_vars
    /\ [][\A r \in Requests :
            (fetch'[r] # fetch[r] /\ ~EndsInlineProbe(r)) => ready_at_init' = ready_at_init]_vars
    /\ [][adapter' = adapter]_vars

C27_Witness ==
    /\ ~adapter.async_init
    /\ ready_at_init
    /\ \E r \in Requests :
         fetch[r].pc = "done" /\ fetch[r].sends = 1 /\ fetch[r].result.kind = "err"
    /\ \E r \in Requests :
         fetch[r].pc = "done" /\ fetch[r].sends = 1 /\ fetch[r].result.kind # "err"

====
